---- MODULE Spec2Model ----
(***************************************************************************)
(* github-releases-watcher: one batch run of main() (the version with     *)
(* per-repo notification patterns), re-run by an external scheduler.       *)
(* The process polls the release feed of every configured repo, keeps the  *)
(* latest release per repo in a JSON file and mails new releases.          *)
(***************************************************************************)
EXTENDS Integers, Sequences, FiniteSets, TLC

(***************************************************************************)
(* Bounds                                                                  *)
(***************************************************************************)
\* longest feed a fetch returns
MaxFeedLen == 3
\* number of times the scheduler starts the process
MaxRuns == 2

(***************************************************************************)
(* Values                                                                  *)
(***************************************************************************)
\* interface Release: the records parseRss can build.  published "" is what
\* parseRss substitutes for a missing pubDate.
rA  == [id |-> "A", title |-> "v1",          link |-> "l/A", published |-> "2024-01-01"]
rA2 == [id |-> "A", title |-> "Beta",        link |-> "l/A", published |-> "2024-01-01"]
rB  == [id |-> "B", title |-> "constructor", link |-> "l/B", published |-> "2024-03-01"]
rC  == [id |-> "C", title |-> "v1",          link |-> "l/C", published |-> ""]
rD  == [id |-> "D", title |-> "Beta",        link |-> "l/D", published |-> "2024-03-01"]

Release == {rA, rA2, rB, rC, rD}

\* no release / no pattern (undefined)
Undefined == [id |-> "undefined", title |-> "", link |-> "", published |-> ""]

RECURSIVE SeqsUpTo(_, _)
SeqsUpTo(S, n) ==
    IF n = 0 THEN {<< >>}
    ELSE LET shorter == SeqsUpTo(S, n - 1)
         IN  shorter \cup {Append(s, x) : s \in {t \in shorter : Len(t) = n - 1}, x \in S}

\* what parseRss can return: feed.items mapped to Release, in feed order
Feeds == SeqsUpTo(Release, MaxFeedLen)

\* the releases the watched repos publish, and the feeds they serve
Published == {rA, rB, rC}
ServedFeeds == SeqsUpTo(Published, MaxFeedLen)

(***************************************************************************)
(* releases.sort((a, b) => new Date(b.published).getTime()                 *)
(*                        - new Date(a.published).getTime())               *)
(* A number is [nan, v]; new Date("").getTime() is NaN, and NaN - x = NaN. *)
(***************************************************************************)
Num(n) == [nan |-> FALSE, v |-> n]
NaN == [nan |-> TRUE, v |-> 0]

\* new Date(published).getTime(), in days since 2023-12-31
GetTime(published) ==
    CASE published = "2024-01-01" -> Num(1)
      [] published = "2024-03-01" -> Num(61)
      [] OTHER -> NaN

Minus(x, y) == IF x.nan \/ y.nan THEN NaN ELSE Num(x.v - y.v)

\* variant: ascending comparator
CompareFnAscending(a, b) == Minus(GetTime(a.published), GetTime(b.published))

\* the comparator passed to sort
CompareFn(a, b) == Minus(GetTime(b.published), GetTime(a.published))

\* the engine's call of the comparator: a NaN result counts as 0
CallCompare(a, b) ==
    LET r == CompareFn(a, b) IN IF r.nan THEN 0 ELSE r.v

RECURSIVE ReverseSeq(_)
ReverseSeq(s) == IF s = << >> THEN << >> ELSE Append(ReverseSeq(Tail(s)), Head(s))

\* length of the initial run of arr (Len(arr) >= 2), extended from index idx
RECURSIVE RunLength(_, _, _)
RunLength(arr, idx, isDescending) ==
    IF idx > Len(arr) THEN idx - 1
    ELSE LET order == CallCompare(arr[idx], arr[idx - 1])
         IN  IF isDescending
             THEN IF order >= 0 THEN idx - 1 ELSE RunLength(arr, idx + 1, isDescending)
             ELSE IF order < 0 THEN idx - 1 ELSE RunLength(arr, idx + 1, isDescending)

\* find the initial run and reverse it when it is strictly descending
CountAndMakeRun(arr) ==
    LET isDescending == CallCompare(arr[2], arr[1]) < 0
        runLength == RunLength(arr, 3, isDescending)
    IN  [arr |-> IF isDescending
                 THEN ReverseSeq(SubSeq(arr, 1, runLength)) \o SubSeq(arr, runLength + 1, Len(arr))
                 ELSE arr,
         len |-> runLength]

\* binary search of the insertion point of pivot in arr[left..right-1]
RECURSIVE InsertionPoint(_, _, _, _)
InsertionPoint(arr, pivot, left, right) ==
    IF left >= right THEN left
    ELSE LET mid == left + ((right - left) \div 2)
         IN  IF CallCompare(pivot, arr[mid]) < 0
             THEN InsertionPoint(arr, pivot, left, mid)
             ELSE InsertionPoint(arr, pivot, mid + 1, right)

\* insert arr[start..] one by one into the sorted prefix arr[1..start-1]
RECURSIVE BinaryInsertionSort(_, _)
BinaryInsertionSort(arr, start) ==
    IF start > Len(arr) THEN arr
    ELSE LET pivot == arr[start]
             left == InsertionPoint(arr, pivot, 1, start)
             moved == SubSeq(arr, 1, left - 1) \o <<pivot>> \o SubSeq(arr, left, start - 1)
                      \o SubSeq(arr, start + 1, Len(arr))
         IN  BinaryInsertionSort(moved, start + 1)

\* Array.prototype.sort of Node's engine for arrays shorter than 64 elements:
\* one run, completed by binary insertion
ArraySort(arr) ==
    IF Len(arr) < 2 THEN arr
    ELSE LET run == CountAndMakeRun(arr) IN BinaryInsertionSort(run.arr, run.len + 1)

\* variant: takes the last element of the sorted array
LatestOfLast(releases) ==
    IF Len(releases) > 0 THEN ArraySort(releases)[Len(releases)] ELSE Undefined

\* lines 324-328: sort, then releases[0] when releases.length > 0
LatestOf(releases) ==
    IF Len(releases) > 0 THEN ArraySort(releases)[1] ELSE Undefined

(***************************************************************************)
(* Configuration (config.yaml) and the pattern cache                       *)
(***************************************************************************)
AllRepos == {"o/r1", "o/r2"}

\* interface RepoConfig: pattern?: string
NoPattern == [hasPattern |-> FALSE, pattern |-> ""]
Pattern(p) == [hasPattern |-> TRUE, pattern |-> p]

Entry(k, v) == [key |-> k, value |-> v]

\* contents of CONFIG_PATH: absent, not YAML, or a YAML document whose repos
\* is the given mapping (in document order) and whose other fields have the
\* required types or not (shapeOk)
Yaml(repos, shapeOk) == [kind |-> "yaml", repos |-> repos, shapeOk |-> shapeOk]
ConfigFiles ==
    { [kind |-> "ENOENT", repos |-> << >>, shapeOk |-> FALSE],
      [kind |-> "notYaml", repos |-> << >>, shapeOk |-> FALSE],
      Yaml(<<Entry("o/r1", NoPattern), Entry("o/r2", NoPattern)>>, FALSE),
      Yaml(<<Entry("o/r1", NoPattern), Entry("o/r2", NoPattern)>>, TRUE),
      Yaml(<<Entry("o/r1", Pattern("^v")), Entry("o/r2", NoPattern)>>, TRUE),
      Yaml(<<Entry("o/r1", Pattern("constructor")), Entry("o/r2", Pattern("^v"))>>, TRUE),
      Yaml(<<Entry("o/r2", Pattern("")), Entry("o/r1", Pattern("^v"))>>, TRUE),
      Yaml(<<Entry("o/r1", Pattern("^v"))>>, TRUE),
      Yaml(<<Entry("o/r1", NoPattern), Entry("o/r2", Pattern("("))>>, TRUE) }

\* new RegExp(pattern) throws a SyntaxError
RegExpThrows(pattern) == pattern = "("

\* new RegExp(source).test(title), for the sources and titles of the model
RegExpTest(source, title) ==
    CASE source = "" -> TRUE
      [] source = "^v" -> title \in {"v1"}
      [] source = "constructor" -> title \in {"constructor"}
      [] OTHER -> FALSE

\* property names every object literal inherits from Object.prototype
ObjectPrototypeKeys == {"constructor", "toString", "__proto__"}

\* variant of In that looks at own properties only
HasOwn(key, obj) == key \in DOMAIN obj

\* key in obj, for regexCache: an own property or an inherited one
In(key, obj) == key \in DOMAIN obj \/ key \in ObjectPrototypeKeys

\* lines 253-265: isValidPattern, with its effect on regexCache
IsValidPattern(pattern, cache) ==
    IF In(pattern, cache) THEN [ok |-> TRUE, cache |-> cache]
    ELSE IF RegExpThrows(pattern) THEN [ok |-> FALSE, cache |-> cache]
    ELSE [ok |-> TRUE, cache |-> cache @@ (pattern :> pattern)]

\* lines 267-271: isRepoConfig
IsRepoConfig(repoConfig, cache) ==
    IF ~repoConfig.hasPattern THEN [ok |-> TRUE, cache |-> cache]
    ELSE IsValidPattern(repoConfig.pattern, cache)

\* line 280: Object.values(config.repos).every(isRepoConfig), left to right,
\* stopping at the first false
RECURSIVE EveryRepoConfig(_, _)
EveryRepoConfig(repos, cache) ==
    IF repos = << >> THEN [ok |-> TRUE, cache |-> cache]
    ELSE LET r == IsRepoConfig(Head(repos).value, cache)
         IN  IF r.ok THEN EveryRepoConfig(Tail(repos), r.cache) ELSE r

\* lines 273-284: isConfig
IsConfig(file, cache) ==
    LET r == EveryRepoConfig(file.repos, cache)
    IN  [ok |-> r.ok /\ file.shapeOk, cache |-> r.cache]

\* lines 373-386: shouldNotifyRelease.  threw: regexCache[pattern] is an
\* inherited property, which has no test method (TypeError)
ShouldNotifyRelease(repoConfig, release, cache) ==
    IF ~repoConfig.hasPattern \/ repoConfig.pattern = ""
    THEN [threw |-> FALSE, result |-> TRUE, cache |-> cache]
    ELSE IF In(repoConfig.pattern, cache)
    THEN IF repoConfig.pattern \in DOMAIN cache
         THEN [threw |-> FALSE, result |-> RegExpTest(cache[repoConfig.pattern], release.title),
               cache |-> cache]
         ELSE [threw |-> TRUE, result |-> FALSE, cache |-> cache]
    ELSE [threw |-> FALSE, result |-> RegExpTest(repoConfig.pattern, release.title),
          cache |-> cache @@ (repoConfig.pattern :> repoConfig.pattern)]

(***************************************************************************)
(* ReleasesData: an object, i.e. its properties in insertion order         *)
(***************************************************************************)
Keys(data) == {data[i].key : i \in 1..Len(data)}

Has(data, k) == k \in Keys(data)

Get(data, k) ==
    IF Has(data, k) THEN data[CHOOSE i \in 1..Len(data) : data[i].key = k].value
    ELSE Undefined

\* variant: the assignment builds a fresh object that holds the one property
PutOnly(data, k, v) == <<Entry(k, v)>>

\* data[k] = v: replaces the value in place or appends a new property
Put(data, k, v) ==
    IF Has(data, k)
    THEN [i \in 1..Len(data) |-> IF data[i].key = k THEN Entry(k, v) ELSE data[i]]
    ELSE Append(data, Entry(k, v))

\* the file at config.jsonFilePath
NoFile == [exists |-> FALSE, json |-> FALSE, members |-> << >>]
\* text that is not JSON (an empty or truncated file)
Garbage == [exists |-> TRUE, json |-> FALSE, members |-> << >>]

\* variant: the published date is not written
StringifyReleaseNoDate(r) ==
    <<"id", r.id, "title", r.title, "link", r.link, "published", "">>

\* the JSON text of one Release: its names and string values in property order
StringifyRelease(r) ==
    <<"id", r.id, "title", r.title, "link", r.link, "published", r.published>>

\* line 299: JSON.stringify(data, null, 2): the members in property order,
\* each a name and the text of its value
JSONStringify(data) ==
    [exists |-> TRUE, json |-> TRUE,
     members |-> [i \in 1..Len(data) |->
                    [name |-> data[i].key, text |-> StringifyRelease(data[i].value)]]]

\* the value that follows name in the text of an object
Field(text, name) ==
    text[(CHOOSE i \in 1..Len(text) : i % 2 = 1 /\ text[i] = name) + 1]

\* line 289: JSON.parse of a JSON text: an object with the members of the
\* text in text order
JSONParse(file) ==
    [i \in 1..Len(file.members) |->
        Entry(file.members[i].name,
              [id |-> Field(file.members[i].text, "id"),
               title |-> Field(file.members[i].text, "title"),
               link |-> Field(file.members[i].text, "link"),
               published |-> Field(file.members[i].text, "published")])]

\* variant: an unreadable text yields the empty object
ReadReleasesDataLenient(file) ==
    IF file.exists /\ file.json THEN [threw |-> FALSE, data |-> JSONParse(file)]
    ELSE [threw |-> FALSE, data |-> << >>]

\* lines 286-296: readReleasesData for a readable path
ReadReleasesData(file) ==
    IF ~file.exists THEN [threw |-> FALSE, data |-> << >>]
    ELSE IF file.json THEN [threw |-> FALSE, data |-> JSONParse(file)]
    ELSE [threw |-> TRUE, data |-> << >>]

\* variant: every fetched release counts as new
IsNewReleaseAlways(data, repo, latestRel) == TRUE

\* variant: a repo with no stored release never counts as new
IsNewReleaseStoredOnly(data, repo, latestRel) ==
    Has(data, repo) /\ Get(data, repo).id # latestRel.id

\* line 330: !releasesData[repo] || releasesData[repo].id !== latestRelease.id
IsNewRelease(data, repo, latestRel) ==
    ~Has(data, repo) \/ Get(data, repo).id # latestRel.id

(***************************************************************************)
(* State                                                                   *)
(***************************************************************************)
VARIABLES
    configFile,     \* the file at CONFIG_PATH
    stateFile,      \* the file at config.jsonFilePath
    pc,             \* where main() is
    config,         \* Object.entries(config.repos) of the validated config
    regexCache,     \* own properties of regexCache: pattern -> source of its RegExp
    releasesData,   \* the in-memory ReleasesData
    idx,            \* position of the for loop in config
    items,          \* the array parseRss returned (kept for the selection alone)
    releases,       \* that array as sort leaves it
    latestRelease,  \* releases[0] of the repo being processed
    exitCode,       \* -1 while the process runs
    run,            \* number of process starts so far
    loaded,         \* history: releasesData as read at line 315
    fetched,        \* history: per repo, what this run fetched
    invoked,        \* history: repos for which sendMail was called in this run
    mailFailed,     \* history: repos whose sendMail rejected in this run
    failedSrc,      \* history: repos whose loop body threw in this run (line 342)
    failCause,      \* history: the stage whose error reached line 349
    saves,          \* history: calls of writeReleasesData in this run
    prev,           \* history: exit code and fetches of the previous run, and
                    \* the data it saved
    streak          \* history: per repo, the id of the latest release last
                    \* fetched and the number of sendMail calls made for it

progVars == <<configFile, stateFile, pc, config, regexCache, releasesData, idx,
              items, releases, latestRelease, exitCode, run>>
histVars == <<loaded, fetched, invoked, mailFailed, failedSrc, failCause, saves,
              prev, streak>>
vars == <<progVars, histVars>>

Pending == [st |-> "pending", latest |-> Undefined]
Fetched(st, rel) == [st |-> st, latest |-> rel]

\* the stage of the run in the orchestrator's terms
Phase ==
    CASE pc = "ReadConfig" -> "Init"
      [] pc \in {"Mkdir", "ReadState"} -> "Loading"
      [] OTHER -> pc

\* the file an earlier run wrote under a configuration that still listed o/r2
EarlierFile == JSONStringify(<<Entry("o/r2", rA)>>)

Init ==
    /\ configFile \in ConfigFiles
    /\ stateFile \in {NoFile, Garbage, EarlierFile}
    /\ pc = "ReadConfig"
    /\ config = << >>
    /\ regexCache = << >>
    /\ releasesData = << >>
    /\ idx = 1
    /\ items = << >>
    /\ releases = << >>
    /\ latestRelease = Undefined
    /\ exitCode = -1
    /\ run = 1
    /\ loaded = << >>
    /\ fetched = [r \in AllRepos |-> Pending]
    /\ invoked = {}
    /\ mailFailed = {}
    /\ failedSrc = {}
    /\ failCause = "none"
    /\ saves = 0
    /\ prev = [exitCode |-> -1, fetched |-> [r \in AllRepos |-> Pending], saved |-> << >>]
    /\ streak = [r \in AllRepos |-> [id |-> "undefined", n |-> 0]]

\* variant: the error is logged and the process ends normally
FailExitsZero(cause) ==
    /\ pc' = "Failed"
    /\ exitCode' = 0
    /\ failCause' = cause

\* lines 349-357: the catch of main
Fail(cause) ==
    /\ pc' = "Failed"
    /\ exitCode' = 1
    /\ failCause' = cause

\* lines 304-309: read, parse and validate the config
ReadConfig ==
    /\ pc = "ReadConfig"
    /\ IF configFile.kind # "yaml"
       THEN /\ Fail("config")
            /\ UNCHANGED <<config, regexCache>>
       ELSE LET r == IsConfig(configFile, regexCache)
            IN  /\ regexCache' = r.cache
                /\ IF r.ok
                   THEN /\ config' = configFile.repos
                        /\ pc' = "Mkdir"
                        /\ UNCHANGED <<exitCode, failCause>>
                   ELSE /\ Fail("config")
                        /\ UNCHANGED config
    /\ UNCHANGED <<items, releases, configFile, stateFile, releasesData, idx, latestRelease, run>>
    /\ UNCHANGED <<loaded, fetched, invoked, mailFailed, failedSrc, saves, prev, streak>>

\* variant: the state file is created empty along with its directory
MkdirAndTouch ==
    /\ pc = "Mkdir"
    /\ \E ok \in BOOLEAN :
          IF ok THEN pc' = "ReadState" /\ stateFile' = Garbage /\ UNCHANGED <<exitCode, failCause>>
          ELSE Fail("mkdir") /\ UNCHANGED stateFile
    /\ UNCHANGED <<items, releases, configFile, config, regexCache, releasesData, idx,
                   latestRelease, run>>
    /\ UNCHANGED <<loaded, fetched, invoked, mailFailed, failedSrc, saves, prev, streak>>

\* lines 312-313: fs.mkdir(jsonDir, {recursive: true})
Mkdir ==
    /\ pc = "Mkdir"
    /\ \E ok \in BOOLEAN :
          IF ok THEN pc' = "ReadState" /\ UNCHANGED <<exitCode, failCause>>
          ELSE Fail("mkdir")
    /\ UNCHANGED <<items, releases, configFile, stateFile, config, regexCache, releasesData, idx,
                   latestRelease, run>>
    /\ UNCHANGED <<loaded, fetched, invoked, mailFailed, failedSrc, saves, prev, streak>>

\* variant: the loop stops one entry early
LoopAtShort(i) ==
    /\ idx' = i
    /\ pc' = IF i < Len(config) THEN "Fetching" ELSE "Committing"

\* the loop head at line 317 for position i
LoopAt(i) ==
    /\ idx' = i
    /\ pc' = IF i <= Len(config) THEN "Fetching" ELSE "Committing"

\* variant: the catch leaves the loop
CatchBreak == LoopAt(Len(config) + 1)

\* variant: the catch tries the same repo again
CatchRetry == LoopAt(idx)

\* lines 342-344: log the error and go on with the next repo
CatchRepoError == LoopAt(idx + 1)

\* line 315: readReleasesData; readable = FALSE is an error other than ENOENT
ReadState ==
    /\ pc = "ReadState"
    /\ \E readable \in BOOLEAN :
          LET r == ReadReleasesData(stateFile)
          IN  IF (stateFile.exists /\ ~readable) \/ r.threw
              THEN /\ Fail("load")
                   /\ UNCHANGED <<releasesData, loaded, idx>>
              ELSE /\ releasesData' = r.data
                   /\ loaded' = r.data
                   /\ LoopAt(1)
                   /\ UNCHANGED <<exitCode, failCause>>
    /\ UNCHANGED <<items, releases, configFile, stateFile, config, regexCache, latestRelease, run>>
    /\ UNCHANGED <<fetched, invoked, mailFailed, failedSrc, saves, prev, streak>>

\* the repo and RepoConfig of the current iteration
Repo == config[idx].key
RepoCfg == config[idx].value

\* variant: the first element is read whatever the length
NonEmptyUnchecked(feed) == TRUE

\* line 327: releases.length > 0
NonEmpty(feed) == Len(feed) > 0

\* lines 319-328: axios.get, parseRss, sort, releases[0].  axios.get is called
\* without a timeout: the promise of a request the server never answers
\* stays pending and main never resumes (Hung).
Fetch ==
    /\ pc = "Fetching"
    /\ \/ /\ pc' = "Hung"
          /\ UNCHANGED <<idx, latestRelease, fetched, failedSrc, streak>>
       \/ \E err \in {"axios.get", "parseRss"} :
             /\ fetched' = [fetched EXCEPT ![Repo] = Fetched("threw", Undefined)]
             /\ failedSrc' = failedSrc \cup {Repo}
             /\ CatchRepoError
             /\ UNCHANGED <<latestRelease, streak>>
       \/ \E feed \in ServedFeeds :
             LET latest == LatestOf(feed)
             IN  /\ fetched' = [fetched EXCEPT ![Repo] = Fetched("ok", latest)]
                 /\ streak' = IF latest.id = streak[Repo].id THEN streak
                              ELSE [streak EXCEPT ![Repo] = [id |-> latest.id, n |-> 0]]
                 /\ UNCHANGED failedSrc
                 /\ IF NonEmpty(feed)
                    THEN /\ latestRelease' = latest
                         /\ pc' = "Evaluating"
                         /\ UNCHANGED idx
                    ELSE /\ LoopAt(idx + 1)
                         /\ UNCHANGED latestRelease
    /\ UNCHANGED <<items, releases, configFile, stateFile, config, regexCache, releasesData, exitCode, run>>
    /\ UNCHANGED <<loaded, invoked, mailFailed, failCause, saves, prev>>

\* lines 330-339: detect, record, decide
Evaluate ==
    /\ pc = "Evaluating"
    /\ IF IsNewRelease(releasesData, Repo, latestRelease)
       THEN LET d == ShouldNotifyRelease(RepoCfg, latestRelease, regexCache)
            IN  /\ releasesData' = Put(releasesData, Repo, latestRelease)
                /\ regexCache' = d.cache
                /\ IF d.threw
                   THEN /\ failedSrc' = failedSrc \cup {Repo}
                        /\ CatchRepoError
                        /\ latestRelease' = Undefined
                   ELSE IF d.result
                   THEN /\ pc' = "Notifying"
                        /\ UNCHANGED <<idx, latestRelease, failedSrc>>
                   ELSE /\ LoopAt(idx + 1)
                        /\ latestRelease' = Undefined
                        /\ UNCHANGED failedSrc
       ELSE /\ LoopAt(idx + 1)
            /\ latestRelease' = Undefined
            /\ UNCHANGED <<releasesData, regexCache, failedSrc>>
    /\ UNCHANGED <<items, releases, configFile, stateFile, config, exitCode, run>>
    /\ UNCHANGED <<loaded, fetched, invoked, mailFailed, failCause, saves, prev, streak>>

\* data without its property k
Delete(data, k) == SelectSeq(data, LAMBDA e : e.key # k)

\* variant: a rejected sendMail restores the entry the run loaded
NotifyRollback ==
    /\ pc = "Notifying"
    /\ invoked' = invoked \cup {Repo}
    /\ streak' = [streak EXCEPT ![Repo].n = @ + 1]
    /\ \E delivered \in BOOLEAN :
          /\ mailFailed' = IF delivered THEN mailFailed ELSE mailFailed \cup {Repo}
          /\ releasesData' = IF delivered THEN releasesData
                             ELSE IF Has(loaded, Repo)
                             THEN Put(releasesData, Repo, Get(loaded, Repo))
                             ELSE Delete(releasesData, Repo)
    /\ LoopAt(idx + 1)
    /\ latestRelease' = Undefined
    /\ UNCHANGED <<items, releases, configFile, stateFile, config, regexCache, exitCode, run>>
    /\ UNCHANGED <<loaded, fetched, failedSrc, failCause, saves, prev>>

\* lines 336, 388-409: sendNotification; a rejected sendMail is caught inside
Notify ==
    /\ pc = "Notifying"
    /\ invoked' = invoked \cup {Repo}
    /\ streak' = [streak EXCEPT ![Repo].n = @ + 1]
    /\ \E delivered \in BOOLEAN :
          mailFailed' = IF delivered THEN mailFailed ELSE mailFailed \cup {Repo}
    /\ LoopAt(idx + 1)
    /\ latestRelease' = Undefined
    /\ UNCHANGED <<items, releases, configFile, stateFile, config, regexCache, releasesData, exitCode, run>>
    /\ UNCHANGED <<loaded, fetched, failedSrc, failCause, saves, prev>>

\* lines 347-348, 298-300: writeFile opens the path with flag 'w' (truncating
\* it) and then writes the text.  It can fail before the open succeeds, or
\* after the truncation.
Save ==
    /\ pc = "Committing"
    /\ saves' = saves + 1
    /\ \/ /\ stateFile' = JSONStringify(releasesData)
          /\ pc' = "Done"
          /\ exitCode' = 0
          /\ UNCHANGED failCause
       \/ /\ UNCHANGED stateFile
          /\ Fail("write")
       \/ /\ stateFile' = Garbage
          /\ Fail("write")
    /\ UNCHANGED <<items, releases, configFile, config, regexCache, releasesData, idx, latestRelease, run>>
    /\ UNCHANGED <<loaded, fetched, invoked, mailFailed, failedSrc, prev, streak>>

\* the scheduler starts the process again: a fresh process reads the same files
StartRun ==
    /\ pc \in {"Done", "Failed"}
    /\ run < MaxRuns
    /\ run' = run + 1
    /\ pc' = "ReadConfig"
    /\ config' = << >>
    /\ regexCache' = << >>
    /\ releasesData' = << >>
    /\ idx' = 1
    /\ latestRelease' = Undefined
    /\ exitCode' = -1
    /\ loaded' = << >>
    /\ fetched' = [r \in AllRepos |-> Pending]
    /\ invoked' = {}
    /\ mailFailed' = {}
    /\ failedSrc' = {}
    /\ failCause' = "none"
    /\ saves' = 0
    /\ prev' = [exitCode |-> exitCode, fetched |-> fetched,
                saved |-> IF exitCode = 0 THEN releasesData ELSE << >>]
    /\ UNCHANGED <<items, releases, configFile, stateFile, streak>>

Next ==
    \/ ReadConfig
    \/ Mkdir
    \/ ReadState
    \/ Fetch
    \/ Evaluate
    \/ Notify
    \/ Save
    \/ StartRun

Spec == Init /\ [][Next]_vars

\* the steps of a running process: the event loop resumes main whenever the
\* promise it awaits has settled
RunStep == ReadConfig \/ Mkdir \/ ReadState \/ Fetch \/ Evaluate \/ Notify \/ Save

LiveSpec == Spec /\ WF_vars(RunStep)

(***************************************************************************)
(* The selection of the latest release on its own (lines 321-328): every   *)
(* array parseRss can return, sorted as main sorts it.                     *)
(***************************************************************************)
SortInit ==
    /\ configFile \in {cf \in ConfigFiles : cf.kind = "ENOENT"}
    /\ stateFile = NoFile
    /\ pc = "Sorting"
    /\ config = << >>
    /\ regexCache = << >>
    /\ releasesData = << >>
    /\ idx = 1
    /\ items \in Feeds
    /\ releases = items
    /\ latestRelease = Undefined
    /\ exitCode = -1
    /\ run = 1
    /\ loaded = << >>
    /\ fetched = [r \in AllRepos |-> Pending]
    /\ invoked = {}
    /\ mailFailed = {}
    /\ failedSrc = {}
    /\ failCause = "none"
    /\ saves = 0
    /\ prev = [exitCode |-> -1, fetched |-> [r \in AllRepos |-> Pending], saved |-> << >>]
    /\ streak = [r \in AllRepos |-> [id |-> "undefined", n |-> 0]]

\* lines 324-328
SortReleases ==
    /\ pc = "Sorting"
    /\ releases' = ArraySort(releases)
    /\ latestRelease' = LatestOf(releases)
    /\ pc' = "Sorted"
    /\ UNCHANGED <<configFile, stateFile, config, regexCache, releasesData, idx, items,
                   exitCode, run, histVars>>

SortNext == SortReleases

SortSpec == SortInit /\ [][SortNext]_vars

(***************************************************************************)
(* Properties                                                              *)
(***************************************************************************)
ValidDate(rel) == ~GetTime(rel.published).nan
Time(rel) == GetTime(rel.published).v

\* the arrays with the same elements as s in another order
PermutationsOf(s) ==
    {[i \in 1..Len(s) |-> s[f[i]]] :
        f \in {g \in [1..Len(s) -> 1..Len(s)] : \A i, j \in 1..Len(s) : g[i] = g[j] => i = j}}

\* position i of s holds the one release with the strictly greatest timestamp
StrictlyNewest(s, i) == \A j \in 1..Len(s) : j # i => Time(s[j]) < Time(s[i])

\* the repos of the validated config
Configured == {config[i].key : i \in 1..Len(config)}
RepoCfgOf(s) == config[CHOOSE i \in 1..Len(config) : config[i].key = s].value

\* the loop is over: the run is committing or has ended after the loop
LoopOver == pc \in {"Committing", "Done"} \/ (pc = "Failed" /\ failCause = "write")

\* this run fetched a non-empty feed for s
GotRelease(s) == fetched[s].st = "ok" /\ fetched[s].latest # Undefined

\* the latest release fetched for s is not the one the run loaded
NewForRun(s) == ~Has(loaded, s) \/ Get(loaded, s).id # fetched[s].latest.id

\* the filter of s lets the title through
FilterPasses(s, title) ==
    ~RepoCfgOf(s).hasPattern \/ RegExpTest(RepoCfgOf(s).pattern, title)

\* C1: when a run has completed and saved, a second run that loads that state
\* and fetches for a repo what the first run fetched sends no notification for
\* it and leaves its entry as loaded; when that is so for every repo, nothing
\* is sent and the saved file is the one the run loaded.
C1_Idempotence ==
    (LoopOver /\ prev.exitCode = 0) =>
        /\ \A s \in AllRepos :
              fetched[s] = prev.fetched[s] =>
                  /\ s \notin invoked
                  /\ Has(releasesData, s) = Has(loaded, s)
                  /\ Get(releasesData, s) = Get(loaded, s)
        /\ (\A s \in AllRepos : fetched[s] = prev.fetched[s]) =>
              /\ invoked = {}
              /\ releasesData = loaded
              /\ pc = "Done" => stateFile = JSONStringify(loaded)

\* C1 witness: a second run is done after a first one that saved, and both
\* fetched the same release for every repo
C1_Witness ==
    /\ pc = "Done"
    /\ prev.exitCode = 0
    /\ fetched = prev.fetched
    /\ \A s \in AllRepos : GotRelease(s)

\* C2: when the latest release fetched for a repo differs in id from the
\* stored one (or none is stored), the repo's entry after the loop is that
\* release, filter or not; when the filter rejects its title no notification
\* is sent for the repo.
C2_UnconditionalTracking ==
    LoopOver =>
        \A s \in Configured :
            (GotRelease(s) /\ NewForRun(s)) =>
                /\ Get(releasesData, s) = fetched[s].latest
                /\ pc = "Done" => Get(JSONParse(stateFile), s) = fetched[s].latest
                /\ ~FilterPasses(s, fetched[s].latest.title) => s \notin invoked

\* C2 witness: a stored release A was replaced by a fetched release B whose
\* title the repo's filter rejects, and the run saved
C2_Witness ==
    /\ pc = "Done"
    /\ \E s \in Configured :
          /\ Has(loaded, s) /\ Get(loaded, s) = rA
          /\ fetched[s] = Fetched("ok", rB)
          /\ RepoCfgOf(s) = Pattern("^v")
          /\ Get(releasesData, s) = rB
          /\ invoked = {}

\* C3: for a repo whose fetch gave a non-empty feed, the notification is sent
\* in this run exactly when the latest release is new and the repo has no
\* filter or its pattern matches the title.
C3_NotificationDecision ==
    LoopOver =>
        \A s \in Configured :
            GotRelease(s) =>
                (s \in invoked <=> (NewForRun(s) /\ FilterPasses(s, fetched[s].latest.title)))

\* C4: a failure while fetching, parsing, evaluating or notifying one repo
\* never ends the run in Failed (only a failed write does); every configured
\* repo has been processed when the loop is over, the updates of the other
\* repos are in the state that is saved, and the run that saves exits with 0.
C4_Isolation ==
    (failedSrc \cup mailFailed # {}) =>
        /\ pc = "Failed" => failCause = "write"
        /\ LoopOver =>
              /\ \A s \in Configured : fetched[s].st # "pending"
              /\ \A s \in Configured \ failedSrc :
                    (GotRelease(s) /\ NewForRun(s)) => Get(releasesData, s) = fetched[s].latest
        /\ pc = "Done" =>
              /\ exitCode = 0
              /\ stateFile = JSONStringify(releasesData)

\* C4 witness: the first repo's fetch threw, the second repo's new release is
\* in the saved file and the run is done
C4_Witness ==
    /\ pc = "Done"
    /\ Len(config) = 2
    /\ fetched[config[1].key].st = "threw"
    /\ GotRelease(config[2].key)
    /\ ~Has(loaded, config[2].key)
    /\ Get(JSONParse(stateFile), config[2].key) = fetched[config[2].key].latest

\* C5: while the latest release of a repo stays the same release, sendMail is
\* called for it at most once over all runs.
C5_AtMostOnce == \A s \in AllRepos : streak[s].n <= 1

\* C6: the entry is replaced before sendMail is called; a rejected sendMail
\* leaves the new release in the entry, is not a failure of the repo's loop
\* body, does not stop the loop, and the saved file holds the release.
C6_DeliveryFailure ==
    /\ pc = "Notifying" =>
          /\ Get(releasesData, Repo) = latestRelease
          /\ Repo \notin invoked
    /\ \A s \in mailFailed :
          /\ Get(releasesData, s) = fetched[s].latest
          /\ s \notin failedSrc
          /\ pc = "Failed" => failCause = "write"
          /\ LoopOver => \A t \in Configured : fetched[t].st # "pending"
          /\ pc = "Done" => Get(JSONParse(stateFile), s) = fetched[s].latest

\* C6 witness: the first repo's mail was rejected, the second repo was then
\* notified, and the saved file holds the first repo's release
C6_Witness ==
    /\ pc = "Done"
    /\ Len(config) = 2
    /\ config[1].key \in mailFailed
    /\ config[2].key \in invoked \ mailFailed
    /\ Get(JSONParse(stateFile), config[1].key) = fetched[config[1].key].latest

\* the config file is present, is YAML of the required shape, and every
\* pattern in it is a regular expression
ConfigValid ==
    /\ configFile.kind = "yaml"
    /\ configFile.shapeOk
    /\ \A i \in 1..Len(configFile.repos) :
          configFile.repos[i].value.hasPattern =>
              ~RegExpThrows(configFile.repos[i].value.pattern)

C9_ExitCodes ==
    /\ pc = "Failed" <=> exitCode = 1
    /\ pc = "Done" <=> exitCode = 0
    /\ pc = "Done" => failCause = "none"
    /\ pc = "Failed" => failCause \in {"config", "mkdir", "load", "write"}
    /\ failCause = "config" => ~ConfigValid
    /\ (~ConfigValid /\ pc # "ReadConfig") => (pc = "Failed" /\ failCause = "config")
    /\ failCause = "load" => (stateFile.exists /\ saves = 0)
    /\ stateFile = Garbage =>
          pc \notin {"Fetching", "Evaluating", "Notifying", "Committing", "Done"}
    /\ failCause = "write" => saves = 1

C9_FailedOnlyFrom ==
    (pc # "Failed" /\ pc' = "Failed") =>
        /\ Phase \in {"Init", "Loading", "Committing"}
        /\ Phase = "Init" <=> failCause' = "config"
        /\ Phase = "Loading" <=> failCause' \in {"mkdir", "load"}
        /\ Phase = "Committing" <=> failCause' = "write"

\* C9: the run ends in Failed with exit code 1 exactly when the config is
\* missing or invalid, the state file's directory or the state file cannot be
\* read or is corrupt, or the state file cannot be written; Failed is entered
\* only from Init, Loading or Committing, and a run that is Done exits with 0.
C9_FatalFailures == []C9_ExitCodes /\ [][C9_FailedOnlyFrom]_vars

\* C9 witness: a run failed in Committing after a first run had failed on a
\* corrupt state file
C9_Witness ==
    /\ pc = "Failed"
    /\ exitCode = 1
    /\ failCause = "write"
    /\ prev.exitCode = 1
    /\ failedSrc # {}

C10_NoFile ==
    (pc = "ReadState" /\ ~stateFile.exists) =>
        (pc' # "ReadState" =>
            /\ releasesData' = << >>
            /\ pc' \in {"Fetching", "Committing"}
            /\ exitCode' = -1)

C10_Malformed ==
    (pc = "ReadState" /\ stateFile = Garbage) =>
        (pc' # "ReadState" =>
            /\ pc' = "Failed"
            /\ exitCode' = 1
            /\ failCause' = "load")

C10_NothingAfterLoadFailure ==
    failCause = "load" =>
        /\ pc = "Failed"
        /\ \A s \in AllRepos : fetched[s] = Pending
        /\ invoked = {}
        /\ saves = 0
        /\ releasesData = << >>

\* C10: with no state file, readReleasesData yields the empty object and the
\* run goes on to the loop; with a file that is not JSON it throws, the run
\* ends in Failed, and in that run nothing is fetched, no mail is sent and
\* writeReleasesData is not called.
C10_StateLoad ==
    /\ [][C10_NoFile /\ C10_Malformed]_vars
    /\ []C10_NothingAfterLoadFailure

\* C10 witness: a run has failed on a file that an interrupted write of the
\* run before left truncated
C10_Witness ==
    /\ pc = "Failed"
    /\ failCause = "load"
    /\ stateFile = Garbage
    /\ run = 2
    /\ prev.exitCode = 1

\* C7: when every published timestamp of a fetched array is valid and one
\* release is strictly newer than all others, that release is the one selected
\* as latest, here and for every reordering of the array.
C7_LatestSelection ==
    (pc = "Sorted" /\ \A i \in 1..Len(items) : ValidDate(items[i])) =>
        \A i \in 1..Len(items) :
            StrictlyNewest(items, i) =>
                /\ latestRelease = items[i]
                /\ \A q \in PermutationsOf(items) : LatestOf(q) = items[i]

\* C7 witness: three valid releases, the newest listed last, have been sorted
C7_Witness ==
    /\ pc = "Sorted"
    /\ items = <<rA, rA2, rB>>
    /\ latestRelease = rB

\* C8: a release with a missing or unparseable published value is never
\* selected as latest when the fetched array holds a release with a valid one.
C8_MalformedNeverWins ==
    (pc = "Sorted" /\ \E i \in 1..Len(items) : ValidDate(items[i])) =>
        ValidDate(latestRelease)

C11_SaveAfterLoop ==
    /\ saves <= 1
    /\ (pc = "Committing" \/ saves = 1) =>
          \A s \in Configured : fetched[s].st # "pending"
    /\ saves = 1 => pc \in {"Done", "Failed"}
    /\ pc \in {"Fetching", "Evaluating", "Notifying"} => saves = 0

C11_NothingAfterSave ==
    (saves = 1 /\ run' = run) => UNCHANGED <<fetched, invoked, mailFailed, releasesData>>

\* C11: in every run writeReleasesData is called at most once, and only when
\* every configured repo has been processed, with or without a failure of its
\* own; once it has been called nothing is fetched, evaluated or notified in
\* that run.
C11_SingleCommit == []C11_SaveAfterLoop /\ [][C11_NothingAfterSave]_vars

\* C11 witness: the run saved once after a loop in which one repo failed and
\* another was notified
C11_Witness ==
    /\ pc = "Done"
    /\ saves = 1
    /\ Len(config) = 2
    /\ failedSrc # {}
    /\ invoked # {}

\* some configured pattern is not a regular expression
HasInvalidPattern ==
    /\ configFile.kind = "yaml"
    /\ \E i \in 1..Len(configFile.repos) :
          /\ configFile.repos[i].value.hasPattern
          /\ RegExpThrows(configFile.repos[i].value.pattern)

\* C12: a config with a pattern that is not a regular expression ends the run
\* in Failed at config load, before any fetch, notification or write; and for
\* a config that passed validation, evaluating a repo's filter against a title
\* never fails, i.e. the loop body of a repo whose fetch succeeded never throws.
C12_InvalidFilterIsConfigError ==
    /\ (HasInvalidPattern /\ pc # "ReadConfig") =>
          /\ pc = "Failed"
          /\ failCause = "config"
          /\ \A s \in AllRepos : fetched[s] = Pending
          /\ invoked = {}
          /\ saves = 0
    /\ \A s \in failedSrc : fetched[s].st # "ok"

C13_NothingMutated ==
    failCause \in {"config", "mkdir", "load"} =>
        /\ pc = "Failed"
        /\ releasesData = << >>
        /\ loaded = << >>
        /\ \A s \in AllRepos : fetched[s] = Pending
        /\ invoked = {}
        /\ saves = 0

C13_FileUntouched ==
    pc \in {"Done", "Failed", "ReadConfig", "Mkdir", "ReadState"} => stateFile' = stateFile

\* C13: when a run ends in Failed on a config error or a state-load error,
\* the state file is what the previous run left (no step between the end of
\* that run and the failure writes it), the in-memory state has not been
\* mutated and no notification has been sent.
C13_FatalBeforeMutation == []C13_NothingMutated /\ [][C13_FileUntouched]_vars

\* C13 witness: after a run that saved a release, the next run failed to read
\* the state file, which still holds that release
C13_Witness ==
    /\ pc = "Failed"
    /\ failCause = "load"
    /\ prev.exitCode = 0
    /\ stateFile.json
    /\ stateFile.members # << >>

\* C14: the text writeReleasesData writes for a state parses back to that
\* state, in the same property order, and the run that loads it would write
\* the same text again: after a run that saved x the next run loads x.
C14_RoundTrip ==
    /\ pc = "Done" =>
          /\ JSONParse(stateFile) = releasesData
          /\ JSONStringify(JSONParse(stateFile)) = stateFile
    /\ (prev.exitCode = 0 /\ pc \in {"Fetching", "Evaluating", "Notifying", "Committing"}) =>
          /\ loaded = prev.saved
          /\ JSONStringify(loaded) = stateFile

\* C14 witness: a run has loaded the two releases the run before saved, the
\* second configured repo's first
C14_Witness ==
    /\ pc = "Committing"
    /\ prev.exitCode = 0
    /\ Len(loaded) = 2
    /\ loaded = prev.saved
    /\ loaded[1].key = "o/r2"
    /\ loaded[1].value = rC
    /\ loaded[2].value = rB

C15_OnlyLatest ==
    /\ \A s \in AllRepos :
          /\ Get(releasesData, s) \in {Get(loaded, s), fetched[s].latest}
          /\ s \in invoked =>
                /\ GotRelease(s)
                /\ Get(releasesData, s) = fetched[s].latest
    /\ pc = "Notifying" => Repo \notin invoked

C15_ReplacedOnce ==
    (pc = "Evaluating" /\ releasesData' # releasesData) =>
        /\ Has(releasesData, Repo) = Has(loaded, Repo)
        /\ Get(releasesData, Repo) = Get(loaded, Repo)
        /\ Get(releasesData', Repo) = fetched[Repo].latest

\* C15: within one run the entry of a repo is replaced at most once (only the
\* loaded entry is ever replaced) and only by the latest release fetched for
\* it, sendMail is called at most once for the repo, and a notification that
\* was sent is for the release that is the repo's entry from then on.
C15_SingleNewReleaseEvent == []C15_OnlyLatest /\ [][C15_ReplacedOnce]_vars

\* C15 witness: a stored release was replaced by the latest fetched one, that
\* one was notified, and the run saved
C15_Witness ==
    /\ pc = "Done"
    /\ \E s \in invoked :
          /\ Has(loaded, s)
          /\ Get(loaded, s) = rA
          /\ fetched[s].latest = rB
          /\ Get(JSONParse(stateFile), s) = rB

\* the positions of s that hold the greatest valid timestamp
Newest(s) ==
    {i \in 1..Len(s) :
        /\ ValidDate(s[i])
        /\ \A j \in 1..Len(s) : ValidDate(s[j]) => Time(s[j]) <= Time(s[i])}

Min(S) == CHOOSE i \in S : \A j \in S : i <= j

\* no two releases of s are ordered by their timestamps: each timestamp is
\* absent or the same as every other one
Unordered(s) ==
    \A i, j \in 1..Len(s) :
        (ValidDate(s[i]) /\ ValidDate(s[j])) => Time(s[i]) = Time(s[j])

C17_CompleteSnapshot ==
    \/ stateFile' = stateFile
    \/ stateFile' = JSONStringify(releasesData)

\* C17: the state file always holds the complete snapshot the previous run
\* left or the complete snapshot of the current run: every step leaves the
\* file as it was or replaces it by the full text of the in-memory state.
C17_AtomicWriteBack == [][C17_CompleteSnapshot]_vars

\* C18: every run that starts fetching eventually reaches Committing and then
\* Done or Failed, however the fetch of any one repo behaves.
C18_RunTerminates == (pc = "Fetching") ~> (pc \in {"Done", "Failed"})

\* this run fetched an empty feed for s
GotEmptyFeed(s) == fetched[s] = Fetched("ok", Undefined)

\* C19: when the fetch of a repo gives an empty array nothing is thrown, no
\* notification is sent for the repo, and its entry stays as loaded, in memory
\* and in the saved file; a repo that had no entry still has none.
C19_EmptyFeedNoOp ==
    \A s \in AllRepos :
        GotEmptyFeed(s) =>
            /\ s \notin failedSrc
            /\ s \notin invoked
            /\ Has(releasesData, s) = Has(loaded, s)
            /\ Get(releasesData, s) = Get(loaded, s)
            /\ pc = "Done" =>
                  /\ Has(JSONParse(stateFile), s) = Has(loaded, s)
                  /\ Get(JSONParse(stateFile), s) = Get(loaded, s)

\* C19 witness: both repos served an empty feed; one keeps the release an
\* earlier run stored, the other has never had one and is absent from the
\* saved file
C19_Witness ==
    /\ pc = "Done"
    /\ \E s, t \in Configured :
          /\ GotEmptyFeed(s) /\ GotEmptyFeed(t)
          /\ Has(loaded, s) /\ Get(JSONParse(stateFile), s) = Get(loaded, s)
          /\ ~Has(loaded, t) /\ ~Has(JSONParse(stateFile), t)

\* pc values of the loop body, during which the source Repo is processed
InLoopBody == pc \in {"Fetching", "Evaluating", "Notifying"}

\* the property data has for s, or Undefined
EntryOf(data, s) == IF Has(data, s) THEN Get(data, s) ELSE Undefined

\* data reduced to its property s
OnlyKey(data, s) == SelectSeq(data, LAMBDA e : e.key = s)

\* C20, frame: a step of the loop body for source Repo leaves the in-memory
\* entry of every other source as it was
C20_WritesOwnKey ==
    [][InLoopBody =>
          \A t \in AllRepos \ {Repo} :
              /\ Has(releasesData', t) = Has(releasesData, t)
              /\ EntryOf(releasesData', t) = EntryOf(releasesData, t)]_vars

\* C20, reads: the detection for Repo has the same outcome when every other
\* entry is removed from the map
C20_ReadsOwnKey ==
    pc = "Evaluating" =>
        IsNewRelease(releasesData, Repo, latestRelease)
            = IsNewRelease(OnlyKey(releasesData, Repo), Repo, latestRelease)

\* C20, carry-over: a source that is not configured keeps the entry the run
\* loaded, in memory through the whole loop and in the file a successful run
\* saves; the saved file holds exactly the entries of the in-memory map
C20_CarriedOver ==
    /\ (InLoopBody \/ LoopOver) =>
          \A t \in AllRepos \ Configured :
              /\ Has(releasesData, t) = Has(loaded, t)
              /\ EntryOf(releasesData, t) = EntryOf(loaded, t)
    /\ pc = "Done" =>
          \A t \in AllRepos :
              /\ Has(JSONParse(stateFile), t) = Has(releasesData, t)
              /\ EntryOf(JSONParse(stateFile), t) = EntryOf(releasesData, t)

\* C20: processing source s reads and writes only the state entry keyed by s;
\* the entries of all other sources, those stored but no longer configured
\* included, are unchanged by it and are carried over into the saved snapshot.
C20_DisjointKeys == C20_WritesOwnKey /\ []C20_ReadsOwnKey /\ []C20_CarriedOver

\* C20 witness: under the configuration that lists only o/r1 the run loaded an
\* entry for o/r2, recorded a first release for o/r1, and the saved file
\* holds both
C20_Witness ==
    /\ pc = "Done"
    /\ Configured = {"o/r1"}
    /\ Has(loaded, "o/r2") /\ ~Has(loaded, "o/r1")
    /\ GotRelease("o/r1")
    /\ EntryOf(JSONParse(stateFile), "o/r2") = Get(loaded, "o/r2")
    /\ EntryOf(JSONParse(stateFile), "o/r1") = fetched["o/r1"].latest

\* the fetch or the parse of s failed in this run
FetchFailed(s) == fetched[s].st = "threw"

\* a source whose fetch or parse failed keeps the entry the run loaded, in
\* memory and in the file the run saves
C21_PointerKept ==
    \A s \in AllRepos :
        FetchFailed(s) =>
            /\ Has(releasesData, s) = Has(loaded, s)
            /\ EntryOf(releasesData, s) = EntryOf(loaded, s)
            /\ pc = "Done" =>
                  /\ Has(JSONParse(stateFile), s) = Has(loaded, s)
                  /\ EntryOf(JSONParse(stateFile), s) = EntryOf(loaded, s)

\* the run after one in which the fetch of s failed and the state was saved:
\* when its fetch succeeds with a release other than the stored one, the
\* release is recorded and, its title passing the filter of s, notified
C21_DetectedByNextRun ==
    (LoopOver /\ prev.exitCode = 0) =>
        \A s \in Configured :
            (prev.fetched[s].st = "threw" /\ GotRelease(s) /\ NewForRun(s)) =>
                /\ Get(releasesData, s) = fetched[s].latest
                /\ FilterPasses(s, fetched[s].latest.title) => s \in invoked

\* C21: if a source's fetch or parse fails in a run, the source's entry in the
\* saved snapshot equals its entry in the loaded state, so a release published
\* meanwhile is still detected as new and notified by the next run whose fetch
\* succeeds.
C21_FailedFetchPreservesPointer == C21_PointerKept /\ C21_DetectedByNextRun

\* isConfig returned true in this run (line 306 was passed)
Validated == config # << >>

\* the configured patterns that are not the empty string
ConfiguredPatterns ==
    {config[i].value.pattern : i \in {j \in 1..Len(config) :
        config[j].value.hasPattern /\ config[j].value.pattern # ""}}

\* after validation every configured non-empty pattern is in regexCache
\* through an own entry that is the RegExp compiled from it
C22_OwnEntries ==
    Validated =>
        \A p \in ConfiguredPatterns :
            /\ In(p, regexCache)
            /\ p \in DOMAIN regexCache
            /\ regexCache[p] = p

\* shouldNotifyRelease, when it is called, tests the title against the cached
\* regex of the pattern: it neither throws nor takes the branch that compiles
\* and caches the pattern
C22_CachedTest ==
    (pc = "Evaluating" /\ IsNewRelease(releasesData, Repo, latestRelease)) =>
        LET d == ShouldNotifyRelease(RepoCfg, latestRelease, regexCache)
        IN  /\ ~d.threw
            /\ d.cache = regexCache
            /\ d.result = FilterPasses(Repo, latestRelease.title)

\* C22: after config validation succeeds, for every configured non-empty
\* pattern p the lookup 'p in regexCache' is true only because regexCache
\* holds an own entry that is the RegExp compiled from p, so
\* shouldNotifyRelease always tests the title against that regex and its
\* fallback branch is never taken; this holds for every pattern string,
\* including names inherited from Object.prototype such as 'constructor'.
C22_RegexCacheInvariant == C22_OwnEntries /\ C22_CachedTest

====
